---- MODULE Spec2Model ----
(***************************************************************************)
(* Model of the two chunking pipelines of rlm-skill:                       *)
(*   scripts/chunk_text.py            character windows with newline snap  *)
(*   scripts/split_code_treesitter.py top-level declaration nodes          *)
(* Python offsets are 0-based; a text t is a TLA+ sequence, so the         *)
(* character at Python offset i is t[i + 1].                               *)
(***************************************************************************)
EXTENDS Integers, Sequences, FiniteSets, TLC

\* ------------------------------------------------------------------ bounds
MaxLen == 6
MaxChars == 4
MaxSpans == 8

\* --------------------------------------------------------------- alphabet
NL == "\n"
Chars == {"a", NL}
Texts == UNION {[1..n -> Chars] : n \in 0..MaxLen}

Max(S) == CHOOSE x \in S : \A y \in S : y <= x
Min2(a, b) == IF a <= b THEN a ELSE b
Max2(a, b) == IF a >= b THEN a ELSE b

VARIABLES
    text,           \* _iter_chunk_spans: the text argument
    max_chars,      \* _iter_chunk_spans: max_chars
    overlap_chars,  \* _iter_chunk_spans: overlap_chars
    start,          \* _iter_chunk_spans: local start
    hard_end,       \* _iter_chunk_spans: local hard_end of the last iteration
    end,            \* _iter_chunk_spans: value _choose_chunk_end returned last
    spans,          \* _iter_chunk_spans: the list being built
    pc              \* position in _iter_chunk_spans

VARIABLES
    language,       \* _top_level_chunks: the language argument
    idx,            \* _top_level_chunks: how many children of the root were scanned
    child,          \* _top_level_chunks: the child scanned last
    nodes,          \* _top_level_chunks: the list being built
    tpc             \* position in _top_level_chunks

VARIABLES
    mode,           \* which script the session runs: "text" or "code"
    disk,           \* the output directories and what they hold
    call,           \* arguments and outcome of the last run
    io,             \* file-system operations of the last run, in order
    repeat,         \* the last run repeated the arguments of a successful one
    runs            \* number of runs so far

spanVars == <<text, max_chars, overlap_chars, start, hard_end, end, spans, pc>>
nodeVars == <<language, idx, child, nodes, tpc>>
fileVars == <<mode, disk, call, io, repeat, runs>>
vars == <<spanVars, nodeVars, fileVars>>

\* The parts of the state a specification does not use stay at these values.
NodesIdle ==
    /\ language = "none"
    /\ idx = 0
    /\ child = [type |-> "none", children |-> <<>>]
    /\ nodes = <<>>
    /\ tpc = "idle"

NoCall ==
    [op |-> "none", force |-> FALSE, outcome |-> "none", text |-> <<>>,
     max_chars |-> 0, overlap_chars |-> 0, files |-> <<>>]

FilesIdle ==
    /\ mode = "idle"
    /\ disk = <<>>
    /\ call = NoCall
    /\ io = <<>>
    /\ repeat = FALSE
    /\ runs = 0

SpansIdle ==
    /\ text = <<>>
    /\ max_chars = 0
    /\ overlap_chars = 0
    /\ start = 0
    /\ hard_end = 0
    /\ end = 0
    /\ spans = <<>>
    /\ pc = "idle"

\* ------------------------------------------------- chunk_text.py helpers

\* str.rfind("\n", lo, hi): the highest offset in [lo, hi) holding a
\* newline, -1 when there is none.
rfind_newline(t, lo, hi) ==
    LET S == {i \in lo..(hi - 1) : i >= 0 /\ i < Len(t) /\ t[i + 1] = NL}
    IN IF S = {} THEN -1 ELSE Max(S)

\* int(n * 0.6) for n >= 0.  The double nearest 0.6 is below 3/5 by a
\* relative 3.7e-17, less than half an ulp, so the float product rounds to
\* the exact integer when 3n/5 is one and truncation gives floor(6n/10).
int_min_ratio(n) == (6 * n) \div 10

choose_chunk_end_gt(t, s, he) ==
    IF he >= Len(t) THEN Len(t)
    ELSE LET min_end == s + int_min_ratio(he - s)
             nl == rfind_newline(t, s, he)
         IN IF nl # -1 /\ nl > min_end THEN nl + 1 ELSE he

choose_chunk_end(t, s, he) ==
    IF he >= Len(t) THEN Len(t)
    ELSE LET min_end == s + int_min_ratio(he - s)
             nl == rfind_newline(t, s, he)
         IN IF nl # -1 /\ nl >= min_end THEN nl + 1 ELSE he

valid_config(m, v) == m > 0 /\ v >= 0 /\ v < m

next_start_gap(e, v) == e + 1

next_start(e, v) == Max2(0, e - v)

\* One pass through the body of the while loop, entered with start = s <
\* len(text).  stop: the loop was left by a break; emit: a span was appended.
loop_body(t, m, v, s) ==
    LET he == Min2(s + m, Len(t))
        e0 == choose_chunk_end(t, s, he)
        e  == IF e0 <= s THEN he ELSE e0
    IN IF e <= s
       THEN [hard_end |-> he, chosen |-> e0, emit |-> FALSE, span |-> <<s, e>>,
             stop |-> TRUE, start |-> s]
       ELSE [hard_end |-> he, chosen |-> e0, emit |-> TRUE, span |-> <<s, e>>,
             stop |-> e >= Len(t),
             start |-> IF e >= Len(t) THEN s ELSE next_start(e, v)]

\* ---------------------------------------- _iter_chunk_spans, step by step

InitSpans ==
    /\ text \in Texts
    /\ max_chars \in 0..MaxChars
    /\ overlap_chars \in (-1)..MaxChars
    /\ start = 0
    /\ hard_end = 0
    /\ end = 0
    /\ spans = <<>>
    /\ pc = "entry"
    /\ NodesIdle
    /\ FilesIdle

\* lines 76-84: the three checks, then spans = [], start = 0
IterEnter ==
    /\ pc = "entry"
    /\ pc' = IF valid_config(max_chars, overlap_chars) THEN "loop" ELSE "raised"
    /\ UNCHANGED <<text, max_chars, overlap_chars, start, hard_end, end, spans>>
    /\ UNCHANGED <<nodeVars, fileVars>>

\* lines 85-96: one iteration of the while loop
IterLoop ==
    /\ pc = "loop"
    /\ start < Len(text)
    /\ Len(spans) < MaxSpans
    /\ LET r == loop_body(text, max_chars, overlap_chars, start)
       IN /\ hard_end' = r.hard_end
          /\ end' = r.chosen
          /\ spans' = IF r.emit THEN Append(spans, r.span) ELSE spans
          /\ start' = r.start
          /\ pc' = IF r.stop THEN "done" ELSE "loop"
    /\ UNCHANGED <<text, max_chars, overlap_chars>>
    /\ UNCHANGED <<nodeVars, fileVars>>

\* line 85 false, line 97: the while condition fails and the list is returned
IterExit ==
    /\ pc = "loop"
    /\ start >= Len(text)
    /\ pc' = "done"
    /\ UNCHANGED <<text, max_chars, overlap_chars, start, hard_end, end, spans>>
    /\ UNCHANGED <<nodeVars, fileVars>>

NextSpans == IterEnter \/ IterLoop \/ IterExit

SpecSpans == InitSpans /\ [][NextSpans]_vars

\* ------------------------------------------- properties of the span loop

SpanStart(i) == spans[i][1]
SpanEnd(i) == spans[i][2]

\* C1: when _iter_chunk_spans returns for a valid configuration, an empty
\* text gave no span; otherwise the first span starts at 0, the last ends at
\* len(text), every span is non-empty, within the text and at most max_chars
\* long, and each span starts at or before the end of the one before it.
C1_Coverage ==
    pc = "done" =>
        IF Len(text) = 0
        THEN spans = <<>>
        ELSE /\ Len(spans) >= 1
             /\ SpanStart(1) = 0
             /\ SpanEnd(Len(spans)) = Len(text)
             /\ \A i \in 1..Len(spans) :
                    /\ 0 <= SpanStart(i)
                    /\ SpanStart(i) < SpanEnd(i)
                    /\ SpanEnd(i) <= Len(text)
                    /\ SpanEnd(i) - SpanStart(i) <= max_chars
             /\ \A i \in 2..Len(spans) : SpanStart(i) <= SpanEnd(i - 1)

\* A run that returned three or more spans, one of them cut short at a
\* newline, with a real overlap.
C1_Witness ==
    /\ pc = "done"
    /\ Len(spans) >= 3
    /\ overlap_chars > 0
    /\ \E i \in 1..Len(spans) :
           /\ SpanEnd(i) < Len(text)
           /\ SpanEnd(i) - SpanStart(i) < max_chars

\* C2: every iteration that does not leave the loop moves start strictly
\* forward.
C2_ForwardProgress ==
    [][(pc = "loop" /\ pc' = "loop") => start' > start]_vars

\* C3: consecutive spans satisfy s_i < s_j <= e_i < e_j and the overlap
\* e_i - s_j is at most overlap_chars.
C3_ConsecutiveSpans ==
    \A i \in 2..Len(spans) :
        /\ SpanStart(i - 1) < SpanStart(i)
        /\ SpanStart(i) <= SpanEnd(i - 1)
        /\ SpanEnd(i - 1) < SpanEnd(i)
        /\ SpanEnd(i - 1) - SpanStart(i) <= overlap_chars

\* The newline the snapping rule names: the last one in [s, he), provided it
\* lies at or after s + floor((he - s) * 0.6), i.e. 10 * (n - s + 1) exceeds
\* 6 * (he - s).
SnapNewlines(s, he) ==
    {n \in s..(he - 1) :
        /\ text[n + 1] = NL
        /\ \A k \in (n + 1)..(he - 1) : text[k + 1] # NL
        /\ 10 * (n - s + 1) > 6 * (he - s)}

\* C9: for the span last appended, started at s: hard_end = min(s + M,
\* len(text)); the chosen end is hard_end when hard_end = len(text),
\* otherwise n + 1 for the last newline n of [s, hard_end) when n >= min_end,
\* and hard_end in every other case.
C9_SnapRule ==
    (pc \in {"loop", "done"} /\ Len(spans) > 0) =>
        LET s == SpanStart(Len(spans))
        IN /\ hard_end = Min2(s + max_chars, Len(text))
           /\ IF hard_end = Len(text)
              THEN end = hard_end
              ELSE IF SnapNewlines(s, hard_end) # {}
                   THEN \E n \in SnapNewlines(s, hard_end) : end = n + 1
                   ELSE end = hard_end

\* An iteration that snapped to a newline lying exactly at min_end, with an
\* earlier newline in the same window.
C9_Witness ==
    /\ pc \in {"loop", "done"}
    /\ Len(spans) > 0
    /\ LET s == SpanStart(Len(spans))
       IN /\ hard_end < Len(text)
          /\ end < hard_end
          /\ end - 1 = s + int_min_ratio(hard_end - s)
          /\ \E k \in s..(end - 2) : text[k + 1] = NL

\* ------------------------------- split_code_treesitter.py: node selector

\* A syntax node is [type, children]; children are its named_children.
Leaf(t) == [type |-> t, children |-> <<>>]
Node(t, cs) == [type |-> t, children |-> cs]

MaxDepth == 2
MaxTop == 2
Fanout == 8

INTERESTING_NODE_TYPES(lang) ==
    CASE lang = "python" ->
           {"function_definition", "class_definition", "decorated_definition"}
      [] lang = "javascript" -> {"function_declaration", "class_declaration"}
      [] lang = "go" ->
           {"function_declaration", "method_declaration", "type_declaration"}
      [] OTHER -> {}

WRAPPER_NODE_TYPES(lang) ==
    CASE lang = "python" -> {"decorated_definition"}
      [] lang = "javascript" -> {"export_statement", "export_default_declaration"}
      [] OTHER -> {}

Languages == {"python", "javascript", "go"}
TopTypes ==
    {"function_declaration", "export_statement", "decorated_definition",
     "expression_statement"}
InnerTypes == {"function_declaration", "identifier"}

\* k uninteresting leaves, to place a subtree at position k + 1 of a level.
Pad(k) == [i \in 1..k |-> Leaf("identifier")]

\* Nodes with at most d levels below them: a leaf, a node with one child, or
\* a node whose child sits at position Fanout or Fanout + 1 of its level.
RECURSIVE Trees(_)
Trees(d) ==
    IF d = 0
    THEN {Leaf(t) : t \in InnerTypes}
    ELSE {Leaf(t) : t \in InnerTypes}
         \cup {Node(t, Pad(k) \o <<c>>) :
                 t \in InnerTypes, k \in {0, Fanout - 1, Fanout},
                 c \in Trees(d - 1)}

TopChildren ==
    {Leaf(t) : t \in TopTypes}
    \cup {Node(t, Pad(k) \o <<c>>) :
            t \in TopTypes, k \in {0, Fanout}, c \in Trees(MaxDepth)}

Take(s, n) == SubSeq(s, 1, Min2(n, Len(s)))

\* The while loop of _has_interesting_descendant over its stack: pop the
\* last node, succeed on an interesting type, else push its first Fanout
\* named children.
RECURSIVE search_stack(_, _)
search_stack(stack, interesting) ==
    IF stack = <<>>
    THEN FALSE
    ELSE LET n == stack[Len(stack)]
             rest == SubSeq(stack, 1, Len(stack) - 1)
         IN IF n.type \in interesting
            THEN TRUE
            ELSE search_stack(rest \o Take(n.children, Fanout), interesting)

has_interesting_descendant(node, interesting) ==
    search_stack(node.children, interesting)

\* The body of the for loop of _top_level_chunks: whether child is appended.
selects(c, lang) ==
    \/ c.type \in INTERESTING_NODE_TYPES(lang)
    \/ /\ c.type \in WRAPPER_NODE_TYPES(lang)
       /\ has_interesting_descendant(c, INTERESTING_NODE_TYPES(lang))

\* What is appended for the child at position i: the child itself, named by
\* its path from the root.
selected_node(c, i) == [path |-> <<i>>, type |-> c.type]

InitNodes ==
    /\ language \in Languages
    /\ idx = 0
    /\ child = Leaf("none")
    /\ nodes = <<>>
    /\ tpc = "scan"
    /\ SpansIdle
    /\ FilesIdle

\* lines 153-161: the next named child of the root is examined
ScanChild ==
    /\ tpc = "scan"
    /\ idx < MaxTop
    /\ \E c \in TopChildren :
          /\ child' = c
          /\ idx' = idx + 1
          /\ nodes' = IF selects(c, language)
                      THEN Append(nodes, selected_node(c, idx + 1))
                      ELSE nodes
    /\ UNCHANGED <<language, tpc>>
    /\ UNCHANGED <<spanVars, fileVars>>

\* line 162: the root has no further child
ScanReturn ==
    /\ tpc = "scan"
    /\ tpc' = "done"
    /\ UNCHANGED <<language, idx, child, nodes>>
    /\ UNCHANGED <<spanVars, fileVars>>

NextNodes == ScanChild \/ ScanReturn

SpecNodes == InitNodes /\ [][NextNodes]_vars

\* ---------------------------------------- properties of the node selector

\* An interesting type among the children of n (level 1) or among the first
\* Fanout children of each of those (level 2).
InterestingWithinTwoLevels(n, interesting) ==
    \/ \E i \in 1..Len(n.children) : n.children[i].type \in interesting
    \/ \E i \in 1..Len(n.children) :
         \E j \in 1..Min2(Fanout, Len(n.children[i].children)) :
            n.children[i].children[j].type \in interesting

LastSelected == idx > 0 /\ nodes # <<>> /\ nodes[Len(nodes)].path = <<idx>>

\* C8: a scanned child whose type is a wrapper and not interesting is selected
\* exactly when an interesting type occurs at most two levels below it; the
\* selected node is that child itself; a child in neither set is skipped.
C8_WrapperSelection ==
    (tpc = "scan" /\ idx > 0) =>
        LET I == INTERESTING_NODE_TYPES(language)
            W == WRAPPER_NODE_TYPES(language)
        IN /\ (child.type \in W \ I) =>
                 (LastSelected <=> InterestingWithinTwoLevels(child, I))
           /\ (child.type \notin W \cup I) => ~LastSelected
           /\ \A k \in 1..Len(nodes) : Len(nodes[k].path) = 1

\* ------------------------------------------------- the output directories

\* A directory is [kind, chunks, index]: kind is "absent", "dir" or "file"
\* (the path exists and is no directory); chunks maps the name of each
\* chunk_*.txt file present to its content; index is <<>> when there is no
\* index.json and <<m>> when index.json holds manifest m.  A chunk file is
\* named by the zero-padded digits of its number.
NoDir == [kind |-> "absent", chunks |-> <<>>, index |-> <<>>]
NotADir == [kind |-> "file", chunks |-> <<>>, index |-> <<>>]

MaxRuns == 2

\* Path.write_text / Path.write_bytes: the file is created or replaced.
write_file_append(files, name, content) ==
    [n \in DOMAIN files \cup {name} |->
        IF n = name
        THEN (IF n \in DOMAIN files THEN files[n] ELSE <<>>) \o content
        ELSE files[n]]

write_file(files, name, content) ==
    [n \in DOMAIN files \cup {name} |-> IF n = name THEN content ELSE files[n]]

\* str(n) for n >= 0, as its decimal digits.
RECURSIVE str_digits(_)
str_digits(n) ==
    IF n < 10 THEN <<n>> ELSE Append(str_digits(n \div 10), n % 10)

\* f"{i:0{width}d}"
zero_pad(i, width) ==
    LET d == str_digits(i)
    IN IF Len(d) >= width THEN d ELSE [k \in 1..(width - Len(d)) |-> 0] \o d

\* max(4, len(str(len(items))))
id_width(n) == Max2(4, Len(str_digits(n)))

\* text[lo:hi] for 0 <= lo <= hi <= len(text)
Slice(t, lo, hi) == SubSeq(t, lo + 1, hi)

\* hashlib.sha256(...).hexdigest(): a digest that depends on the bytes alone.
\* The model keeps a polynomial checksum of the bytes in its place.
RECURSIVE sha256(_)
sha256(bytes) ==
    IF bytes = <<>>
    THEN 7
    ELSE (31 * sha256(SubSeq(bytes, 1, Len(bytes) - 1))
          + (IF bytes[Len(bytes)] = NL THEN 10 ELSE 97)) % 65521

\* ------------------------------------------------ chunk_text.py: chunk_text

compute_newline_positions(t) == {i \in 0..(Len(t) - 1) : t[i + 1] = NL}

\* bisect.bisect_right on the sorted list of newline offsets: how many of
\* them are <= x.
bisect_right(newlines, x) == Cardinality({p \in newlines : p <= x})

line_number_at(newlines, pos) ==
    LET p == IF pos < 0 THEN 0 ELSE pos
    IN bisect_right(newlines, p - 1) + 1

would_overwrite_never(dir) == FALSE

would_overwrite_existing_chunks(dir) ==
    IF dir.kind = "absent" THEN FALSE
    ELSE IF dir.kind # "dir" THEN TRUE
    ELSE DOMAIN dir.chunks # {}

\* The whole of _iter_chunk_spans.  A run of the loop over a text of n
\* characters that has not stopped after n iterations has seen a start twice
\* and never stops: outcome "hang".
RECURSIVE iter_loop(_, _, _, _, _, _)
iter_loop(t, m, v, s, acc, fuel) ==
    IF ~(s < Len(t))
    THEN [outcome |-> "returned", spans |-> acc]
    ELSE IF fuel = 0
    THEN [outcome |-> "hang", spans |-> acc]
    ELSE LET r == loop_body(t, m, v, s)
             acc2 == IF r.emit THEN Append(acc, r.span) ELSE acc
         IN IF r.stop
            THEN [outcome |-> "returned", spans |-> acc2]
            ELSE iter_loop(t, m, v, r.start, acc2, fuel - 1)

iter_chunk_spans(t, m, v) ==
    IF ~valid_config(m, v)
    THEN [outcome |-> "raised", spans |-> <<>>]
    ELSE iter_loop(t, m, v, 0, <<>>, Len(t))

\* lines 123-145: the Chunk record of span number i
text_chunk(t, newlines, sp, i, width) ==
    [chunk_id |-> zero_pad(i, width),
     path |-> zero_pad(i, width),
     start_char |-> sp[1],
     end_char |-> sp[2],
     start_line |-> line_number_at(newlines, sp[1]),
     end_line |-> line_number_at(newlines, Max2(sp[1], sp[2] - 1)),
     sha256 |-> sha256(Slice(t, sp[1], sp[2]))]

\* lines 123-145: the for loop over the spans, from span i on
RECURSIVE emit_text_chunks(_, _, _, _)
emit_text_chunks(files, t, sps, i) ==
    IF i > Len(sps)
    THEN files
    ELSE emit_text_chunks(
             write_file(files, zero_pad(i, id_width(Len(sps))),
                        Slice(t, sps[i][1], sps[i][2])),
             t, sps, i + 1)

text_index(t, m, v, sps) ==
    [source_file |-> "source", out_dir |-> "out",
     max_chars |-> m, overlap_chars |-> v,
     chunks |-> [i \in 1..Len(sps) |->
                   text_chunk(t, compute_newline_positions(t), sps[i], i,
                              id_width(Len(sps)))]]

\* chunk_text on output directory dir: the directory afterwards, the outcome
\* and the file-system operations performed.
chunk_text(dir, t, m, v, force) ==
    IF dir.kind = "file"
    THEN [dir |-> dir, outcome |-> "error", io |-> <<"read_source", "mkdir">>]
    ELSE
    LET made == [dir EXCEPT !.kind = "dir"]
        r == iter_chunk_spans(t, m, v)
    IN IF would_overwrite_existing_chunks(made) /\ ~force
       THEN [dir |-> made, outcome |-> "error",
             io |-> <<"read_source", "mkdir", "list_dir">>]
       ELSE IF r.outcome = "raised"
       THEN [dir |-> made, outcome |-> "error",
             io |-> <<"read_source", "mkdir", "list_dir">>]
       ELSE IF r.outcome = "hang"
       THEN [dir |-> made, outcome |-> "hang",
             io |-> <<"read_source", "mkdir", "list_dir">>]
       ELSE [dir |-> [kind |-> "dir",
                      chunks |-> emit_text_chunks(made.chunks, t, r.spans, 1),
                      index |-> <<text_index(t, m, v, r.spans)>>],
             outcome |-> "ok",
             io |-> <<"read_source", "mkdir", "list_dir">>
                    \o [i \in 1..Len(r.spans) |-> "write_chunk"]
                    \o <<"write_index">>]

\* The source texts and configurations a run of chunk_text.py is given.
SrcTexts ==
    {<<>>, <<"a">>, <<"a", NL>>, <<"a", NL, "a">>, <<"a", "a", "a">>,
     <<NL, "a", "a", NL>>, <<"a", NL, "a", "a">>}
Configs ==
    {<<0, 0>>, <<1, -1>>, <<1, 0>>, <<1, 1>>, <<2, 0>>, <<2, 1>>, <<3, 2>>}

\* ------------------------------- split_code_treesitter.py: split_code

\* The parser's point of byte offset pos: (row, column), row counting the
\* newlines before pos.
ts_point(data, pos) ==
    LET before == {p \in 0..(pos - 1) : data[p + 1] = NL}
    IN <<Cardinality(before),
         IF before = {} THEN pos ELSE pos - (Max(before) + 1)>>

\* A node the parser returns for bytes [lo, hi) of data.
ts_node(data, t, lo, hi, cs) ==
    [type |-> t, children |-> cs, start_byte |-> lo, end_byte |-> hi,
     start_point |-> ts_point(data, lo), end_point |-> ts_point(data, hi)]

\* A source file: its name, the language of its extension in EXT_TO_LANG
\* ("" when it has none), whether get_parser knows that language, its bytes
\* and the named children of the root of its parse tree.
SourceFile(n, l, ok, d, t) ==
    [name |-> n, ext_lang |-> l, parser_ok |-> ok, data |-> d, tree |-> t]

TwoLines == <<"a", NL, "a">>
OneLine == <<"a", NL>>

PyFiles ==
    {SourceFile("a.py", "python", TRUE, TwoLines,
         <<ts_node(TwoLines, "function_definition", 0, 1, <<>>),
           ts_node(TwoLines, "function_definition", 2, 3, <<>>)>>),
     SourceFile("a.py", "python", TRUE, TwoLines,
         <<ts_node(TwoLines, "function_definition", 0, 3, <<>>)>>),
     SourceFile("a.py", "python", TRUE, TwoLines,
         <<ts_node(TwoLines, "import_statement", 0, 3, <<>>)>>),
     SourceFile("a.py", "python", TRUE, OneLine,
         <<ts_node(OneLine, "function_definition", 0, 2, <<>>)>>),
     SourceFile("a.py", "python", TRUE, TwoLines,
         <<ts_node(TwoLines, "import_statement", 0, 1, <<>>),
           ts_node(TwoLines, "decorated_definition", 2, 3,
                   <<Leaf("function_definition")>>)>>)}

JsFiles ==
    {SourceFile("b.js", "javascript", TRUE, <<"a">>,
         <<ts_node(<<"a">>, "export_statement", 0, 1,
                   <<Leaf("function_declaration")>>)>>),
     SourceFile("b.js", "javascript", TRUE, <<"a">>,
         <<ts_node(<<"a">>, "export_statement", 0, 1, <<Leaf("identifier")>>)>>)}

OtherFiles ==
    {SourceFile("c.txt", "", FALSE, <<"a">>, <<>>),
     SourceFile("d.php", "php", FALSE, <<"a">>, <<>>)}

\* The files a run of split_code_treesitter.py walks, in the order walked.
Sources ==
    {<<f>> : f \in PyFiles \cup OtherFiles}
    \cup {<<f, g>> : f \in PyFiles, g \in JsFiles}
    \cup {<<g, f>> : f \in PyFiles, g \in JsFiles}

UnitNames == {"a.py", "b.js", "c.txt", "d.php"}

\* _detect_language with no --language override
detect_language(f) == f.ext_lang

top_level_chunks(tree, lang) == SelectSeq(tree, LAMBDA c : selects(c, lang))

\* _clear_existing_chunks on a directory that exists: index.json and every
\* chunk_*.txt are unlinked.
clear_existing_chunks(dir) ==
    IF dir.kind # "dir" THEN dir ELSE [dir EXCEPT !.chunks = <<>>, !.index = <<>>]

\* lines 230-256: the Chunk record of node number i of file f
code_chunk(f, lang, node, i, width) ==
    [chunk_id |-> <<f.name, zero_pad(i, width)>>,
     source_file |-> f.name,
     language |-> lang,
     node_type |-> node.type,
     start_line |-> node.start_point[1] + 1,
     end_line |-> node.end_point[1] + 1,
     start_byte |-> node.start_byte,
     end_byte |-> node.end_byte,
     path |-> <<f.name, zero_pad(i, width)>>,
     sha256 |-> sha256(Slice(f.data, node.start_byte, node.end_byte))]

RECURSIVE emit_code_chunks(_, _, _, _)
emit_code_chunks(files, f, ns, i) ==
    IF i > Len(ns)
    THEN files
    ELSE emit_code_chunks(
             write_file(files, zero_pad(i, id_width(Len(ns))),
                        Slice(f.data, ns[i].start_byte, ns[i].end_byte)),
             f, ns, i + 1)

code_chunks(f, lang, ns) ==
    [i \in 1..Len(ns) |-> code_chunk(f, lang, ns[i], i, id_width(Len(ns)))]

unit_index(f, lang, ns) ==
    [source_file |-> f.name, language |-> lang, chunks |-> code_chunks(f, lang, ns)]

aggregate_index(all) ==
    [source_root |-> "source", out_dir |-> "out", language_override |-> "",
     chunks |-> all]

\* lines 199-270: the for loop over the files, from file k on.  st is
\* [dirs, agg, all, io]: the chunk directories, the aggregate index.json, the
\* records collected so far and the operations performed so far.
RECURSIVE split_files(_, _, _, _)
split_files(st, files, k, force) ==
    IF k > Len(files)
    THEN [dirs |-> st.dirs, agg |-> <<aggregate_index(st.all)>>,
          outcome |-> "ok", io |-> Append(st.io, "write_index")]
    ELSE
    LET f == files[k]
        lang == detect_language(f)
        ns == top_level_chunks(f.tree, lang)
        made == [st.dirs[f.name] EXCEPT !.kind = "dir"]
        io1 == st.io \o <<"read_source">>
        io2 == io1 \o <<"mkdir", "list_dir">>
        clean == IF force THEN clear_existing_chunks(made) ELSE made
        unlinks == [i \in 1..(Cardinality(DOMAIN made.chunks) + Len(made.index))
                      |-> "unlink"]
        written == [kind |-> "dir",
                    chunks |-> emit_code_chunks(clean.chunks, f, ns, 1),
                    index |-> <<unit_index(f, lang, ns)>>]
    IN IF lang = "" \/ ~f.parser_ok
       THEN split_files(st, files, k + 1, force)
       ELSE IF ns = <<>>
       THEN split_files([st EXCEPT !.io = io1], files, k + 1, force)
       ELSE IF st.dirs[f.name].kind = "file"
       THEN [dirs |-> st.dirs, agg |-> st.agg, outcome |-> "error",
             io |-> Append(io1, "mkdir")]
       ELSE IF ~force /\ DOMAIN made.chunks # {}
       THEN [dirs |-> [st.dirs EXCEPT ![f.name] = made], agg |-> st.agg,
             outcome |-> "error", io |-> io2]
       ELSE split_files(
                [dirs |-> [st.dirs EXCEPT ![f.name] = written],
                 agg |-> st.agg,
                 all |-> st.all \o code_chunks(f, lang, ns),
                 io |-> io2 \o (IF force THEN unlinks ELSE <<>>)
                        \o [i \in 1..Len(ns) |-> "write_chunk"]
                        \o <<"write_index">>],
                files, k + 1, force)

\* split_code with tree-sitter installed: out_dir is created, the files are
\* processed in order, the aggregate index.json is written last.
split_code(d, files, force) ==
    split_files([dirs |-> d.dirs, agg |-> d.agg, all |-> <<>>, io |-> <<"mkdir">>],
                files, 1, force)

\* ------------------------------------------------------ sessions of runs

InitFiles ==
    /\ mode \in {"text", "code"}
    /\ disk \in IF mode = "text"
                THEN {[dirs |-> [u \in {"out"} |-> d], agg |-> <<>>] :
                         d \in {NoDir, NotADir}}
                ELSE {[dirs |-> [u \in UnitNames |-> NoDir], agg |-> <<>>]}
    /\ call = NoCall
    /\ io = <<>>
    /\ repeat = FALSE
    /\ runs = 0
    /\ SpansIdle
    /\ NodesIdle

\* One run of chunk_text.py (main has found the source file to exist).
RunChunkText ==
    /\ mode = "text"
    /\ runs < MaxRuns
    /\ \E t \in SrcTexts, cfg \in Configs, force \in BOOLEAN :
          LET r == chunk_text(disk.dirs["out"], t, cfg[1], cfg[2], force)
              c == [op |-> "chunk_text", force |-> force, outcome |-> r.outcome,
                    text |-> t, max_chars |-> cfg[1], overlap_chars |-> cfg[2],
                    files |-> <<>>]
          IN /\ disk' = [disk EXCEPT !.dirs["out"] = r.dir]
             /\ call' = c
             /\ io' = r.io
             /\ repeat' = (call.outcome = "ok" /\ c = call)
    /\ runs' = runs + 1
    /\ UNCHANGED <<mode, spanVars, nodeVars>>

\* One run of split_code_treesitter.py (tree-sitter installed, no --language).
RunSplitCode ==
    /\ mode = "code"
    /\ runs < MaxRuns
    /\ \E files \in Sources, force \in BOOLEAN :
          LET r == split_code(disk, files, force)
              c == [op |-> "split_code", force |-> force, outcome |-> r.outcome,
                    text |-> <<>>, max_chars |-> 0, overlap_chars |-> 0,
                    files |-> files]
          IN /\ disk' = [dirs |-> r.dirs, agg |-> r.agg]
             /\ call' = c
             /\ io' = r.io
             /\ repeat' = (call.outcome = "ok" /\ c = call)
    /\ runs' = runs + 1
    /\ UNCHANGED <<mode, spanVars, nodeVars>>

NextFiles == RunChunkText \/ RunSplitCode

SpecFiles == InitFiles /\ [][NextFiles]_vars

\* ------------------------------------------ properties of the two scripts

Invalid(c) == ~valid_config(c.max_chars, c.overlap_chars)

\* The units (destination directories) a run addresses, and those whose
\* manifest a successful run writes.
TargetUnits(c) ==
    IF c.op = "chunk_text" THEN {"out"}
    ELSE {c.files[k].name : k \in 1..Len(c.files)}

FileOf(c, u) == c.files[CHOOSE k \in 1..Len(c.files) : c.files[k].name = u]

YieldsChunks(c, u) ==
    \/ c.op = "chunk_text"
    \/ /\ c.op = "split_code"
       /\ detect_language(FileOf(c, u)) # ""
       /\ FileOf(c, u).parser_ok
       /\ top_level_chunks(FileOf(c, u).tree, detect_language(FileOf(c, u))) # <<>>

WrittenUnits(c) ==
    IF c.outcome # "ok" THEN {}
    ELSE {u \in TargetUnits(c) : YieldsChunks(c, u)}

HasChunkFiles(dir) == dir.kind = "dir" /\ DOMAIN dir.chunks # {}

\* The chunk files a manifest lists.
ListedFiles(m) ==
    {IF "language" \in DOMAIN m THEN m.chunks[i].path[2] ELSE m.chunks[i].path :
        i \in 1..Len(m.chunks)}

\* C4: a run of chunk_text with an invalid configuration fails having done no
\* I/O: the source is not read and the file system is left as it was.
C4_InvalidConfigNoIO ==
    [][(call'.op = "chunk_text" /\ Invalid(call')) =>
          (call'.outcome = "error" /\ io' = <<>> /\ disk' = disk)]_vars

\* C5: after a successful run with force, the chunk files at each destination
\* written are exactly those its new manifest lists.
C5_ForceLeavesNoStaleChunk ==
    (call.outcome = "ok" /\ call.force) =>
        \A u \in WrittenUnits(call) :
            /\ disk.dirs[u].index # <<>>
            /\ DOMAIN disk.dirs[u].chunks = ListedFiles(disk.dirs[u].index[1])

\* C6 as stated: a run without force over a unit whose destination holds
\* chunk files fails, and that destination is left unchanged.
C6_CollisionFails ==
    [][\A u \in TargetUnits(call') :
          (~call'.force /\ HasChunkFiles(disk.dirs[u])) =>
              (call'.outcome = "error" /\ disk'.dirs[u] = disk.dirs[u])]_vars

\* C6 amended: the run fails when such a unit yields at least one chunk (always
\* for chunk_text; for split_code when the file's language has a parser and a
\* top-level node is selected); in every case the destination is left
\* unchanged.
C6_CollisionFailsOrSkips ==
    [][\A u \in TargetUnits(call') :
          (~call'.force /\ HasChunkFiles(disk.dirs[u])) =>
              /\ disk'.dirs[u] = disk.dirs[u]
              /\ YieldsChunks(call', u) => call'.outcome = "error"]_vars

\* A run of split_code without force that failed on a destination holding the
\* chunk files of an earlier run.
C6_Witness ==
    /\ call.op = "split_code"
    /\ ~call.force
    /\ call.outcome = "error"
    /\ \E u \in TargetUnits(call) :
          HasChunkFiles(disk.dirs[u]) /\ YieldsChunks(call, u)

SameArguments(c, d) ==
    /\ c.op = d.op
    /\ c.force = d.force
    /\ c.text = d.text
    /\ c.max_chars = d.max_chars
    /\ c.overlap_chars = d.overlap_chars
    /\ c.files = d.files

\* C7: a successful run with force, run again with the same arguments on the
\* same input, succeeds and leaves every destination as the first run left it.
C7_ForcedRerunIdempotent ==
    [][(call.outcome = "ok" /\ call.force /\ SameArguments(call', call)) =>
          (call'.outcome = "ok" /\ disk' = disk)]_vars

\* The state after such a second run that wrote two or more chunk files.
C7_Witness ==
    /\ repeat
    /\ call.force
    /\ call.outcome = "ok"
    /\ \E u \in WrittenUnits(call) : Cardinality(DOMAIN disk.dirs[u].chunks) >= 2

NewlinesBefore(buf, pos) == Cardinality({p \in 0..(pos - 1) : buf[p + 1] = NL})

LineRangeFromOffsets(buf, lo, hi, rec) ==
    /\ rec.start_line = 1 + NewlinesBefore(buf, lo)
    /\ rec.end_line = 1 + NewlinesBefore(buf, hi - 1)
    /\ 1 <= rec.start_line
    /\ rec.start_line <= rec.end_line

\* C10: in every manifest a successful run writes, each chunk's start_line is
\* 1 + the newlines before its start offset and its end_line is 1 + the
\* newlines before the offset of its last byte, end - 1.
C10_LineRange ==
    \A u \in WrittenUnits(call) :
        LET m == disk.dirs[u].index[1]
        IN \A i \in 1..Len(m.chunks) :
              IF call.op = "chunk_text"
              THEN LineRangeFromOffsets(call.text, m.chunks[i].start_char,
                                        m.chunks[i].end_char, m.chunks[i])
              ELSE LineRangeFromOffsets(FileOf(call, u).data,
                                        m.chunks[i].start_byte,
                                        m.chunks[i].end_byte, m.chunks[i])

====
